---- MODULE Spec2Model ----
(***************************************************************************)
(* Model of sht-led-demo-uno-r4.ino: an Arduino sketch that calibrates a   *)
(* display window from one SHT4x temperature reading and then scrolls a    *)
(* bar chart of the following readings over an 8 x 12 LED matrix.          *)
(*                                                                         *)
(* Temperatures are floats in the sketch.  The model keeps a temperature   *)
(* as an integer number of 1/TempScale degrees (a fixed-point value that   *)
(* is exactly representable as a float) and evaluates the two float        *)
(* expressions of the sketch as exact rationals truncated toward zero.     *)
(* For the readings used here the float result and the exact result have   *)
(* the same integer part.                                                  *)
(***************************************************************************)
EXTENDS Integers, Sequences, FiniteSets, TLC

VARIABLES
    pc,                 \* position of the single thread of control
    frame,              \* uint8_t frame[ROWS][COLUMNS]
    display,            \* the bitmap last handed to matrix.renderBitmap
    minVal, maxVal,     \* display range (uint8_t)
    temperature,        \* float temperature, in 1/TempScale degrees
    error,              \* uint16_t error of the last driver call
    errorMessageSize,   \* history: size the last step passed to errorToString (0: no call)
    displayValue,       \* local displayValue of the last loop() (uint8_t)
    baseline,           \* history: the reading calibration was computed from
    inserted,           \* history: <<value, fill>> of every insert_right call
    measured,           \* history: a measurement has been attempted
    damaged,            \* history: failed reads in loop() that changed frame or minVal
    ops                 \* history: what the last step did, in order

vars == <<pc, frame, display, minVal, maxVal, temperature, error,
          errorMessageSize, displayValue, baseline, inserted, measured, damaged, ops>>

----------------------------------------------------------------------------
(* Configuration of the sketch *)

COLUMNS == 12
ROWS == 8
TEMP_RANGE == 5
\* BASELINE_SCALE_FACTOR = 0.98, kept as the ratio of two integers
BASELINE_SCALE_NUM == 98
BASELINE_SCALE_DEN == 100
\* capacity of char errorMessage[128]
ERROR_MESSAGE_CAPACITY == 128

\* number of values of a uint8_t
UINT8_RANGE == 256
\* one degree, in the unit temperatures are kept in
TempScale == 8

(* Bounds of the model *)
\* loop() iterations that change frame or minVal: those with a successful
\* reading, and those whose failed read overwrites frame or minVal
MaxLoops == 2
\* insert_right calls of the scroll driver
MaxInserts == 13

Rows == 0 .. (ROWS - 1)
Cols == 0 .. (COLUMNS - 1)
Uint8 == 0 .. (UINT8_RANGE - 1)

\* The readings the sensor driver may deliver, in 1/TempScale degrees:
\* -3.0, -0.5, 0.0, 19.0, 20.0, 21.5, 24.0, 25.5, 258.0
Readings == {-24, -4, 0, 152, 160, 172, 192, 204, 2064}

NoReading == "none"

----------------------------------------------------------------------------
(* Arithmetic of the C++ conversions *)

Abs(x) == IF x < 0 THEN -x ELSE x

\* integer part of a / b, rounded toward zero as a C++ float-to-integer
\* conversion rounds
TruncDiv(a, b) ==
    LET q == Abs(a) \div Abs(b)
    IN  IF (a < 0) # (b < 0) THEN -q ELSE q

\* the low 8 bits of an integer
Low8(x) == x % UINT8_RANGE

\* (uint8_t) of a floating value whose integer part is x.  Inside 0..255 the
\* result is x.  Outside, the conversion is undefined: builds convert either
\* to an unsigned 32-bit word (negative values give 0) or to a signed 32-bit
\* word, and keep the low byte.
ToUint8(x) == { Low8(IF x < 0 THEN 0 ELSE x), Low8(x) }

\* uint8_t addition
AddUint8(a, b) == (a + b) % UINT8_RANGE

----------------------------------------------------------------------------
(* Frames *)

ZeroFrame == [r \in Rows |-> [c \in Cols |-> 0]]
OnFrame == [r \in Rows |-> [c \in Cols |-> 1]]

\* variant: the shift loop stops one column early (columns < COLUMNS - 1)
ShiftLeft_StopEarly(f) ==
    [r \in Rows |-> [c \in Cols |-> IF c + 2 < COLUMNS THEN f[r][c + 1] ELSE f[r][c]]]

\* the first loop of insert_right: for columns = 1 .. COLUMNS-1, every row
\* copies column `columns` into column `columns - 1`.  The loop runs left to
\* right, so each column is read before it is overwritten, and the last
\* column is left as it was.
ShiftLeft(f) ==
    [r \in Rows |-> [c \in Cols |-> IF c + 1 < COLUMNS THEN f[r][c + 1] ELSE f[r][c]]]

\* variant: the outline comparison uses value instead of value - 1
BarCell_OutlineAtValue(value, fill, rows) ==
    IF fill
    THEN (IF (value - 1) >= rows THEN 1 ELSE 0)
    ELSE (IF value = rows THEN 1 ELSE 0)

\* variant: the filled comparison is turned around
BarCell_FilledFromTop(value, fill, rows) ==
    IF fill
    THEN (IF (value - 1) <= rows THEN 1 ELSE 0)
    ELSE (IF (value - 1) = rows THEN 1 ELSE 0)

\* variant: a lit cell stores the value instead of the result of the
\* comparison
BarCell_StoresValue(value, fill, rows) ==
    IF fill
    THEN (IF (value - 1) >= rows THEN value ELSE 0)
    ELSE (IF (value - 1) = rows THEN value ELSE 0)

\* the cell the second loop of insert_right writes for loop index `rows`
BarCell(value, fill, rows) ==
    IF fill
    THEN (IF (value - 1) >= rows THEN 1 ELSE 0)
    ELSE (IF (value - 1) = rows THEN 1 ELSE 0)

\* variant: the row index is not inverted (frame[rows] instead of
\* frame[ROWS-1-rows])
WriteBar_NoInversion(f, value, fill) ==
    [r \in Rows |-> [f[r] EXCEPT ![COLUMNS - 1] = BarCell(value, fill, r)]]

\* the second loop of insert_right
WriteBar(f, value, fill) ==
    [r \in Rows |-> [f[r] EXCEPT ![COLUMNS - 1] = BarCell(value, fill, ROWS - 1 - r)]]

insert_right(f, value, fill) == WriteBar(ShiftLeft(f), value, fill)

----------------------------------------------------------------------------
(* The two float expressions *)

\* variant: the reading is not scaled by BASELINE_SCALE_FACTOR
CalibrateMin_NoScale(t) ==
    ToUint8(TruncDiv(t, TempScale))

\* (uint8_t)(BASELINE_SCALE_FACTOR * temperature): the possible results
CalibrateMin(t) ==
    ToUint8(TruncDiv(BASELINE_SCALE_NUM * t, BASELINE_SCALE_DEN * TempScale))

\* minVal + TEMP_RANGE stored into a uint8_t
CalibrateMax(mn) == AddUint8(mn, TEMP_RANGE)

\* variant: the quotient is scaled by ROWS - 1 instead of ROWS
Quantize_RowsMinusOne(t, mn, mx) ==
    ToUint8(TruncDiv((t - TempScale * mn) * (ROWS - 1), TempScale * (mx - mn)))

\* (uint8_t)((temperature - minVal) / (maxVal - minVal) * ROWS): the possible
\* results
Quantize(t, mn, mx) ==
    ToUint8(TruncDiv((t - TempScale * mn) * ROWS, TempScale * (mx - mn)))

----------------------------------------------------------------------------
(* The oversized errorToString call *)

\* errorToString(error, errorMessage, 256) is told to write 256 bytes into
\* char errorMessage[128]: undefined behaviour.  A library that pads its
\* message to the size it is given zeroes the 128 bytes behind the buffer.
\* Which globals lie there is decided by the build, so every failed read
\* chooses: each of the zero-initialised error, temperature and minVal is
\* zeroed or kept, and frame, when the write runs into it, loses its first
\* bytes, as many as the write still has to go (any number from none to all
\* of them).  A library that stays within the buffer, or a build that puts
\* nothing of the sketch behind it, keeps them all.  maxVal has a non-zero
\* initialiser and is stored with the initialised data, not behind
\* errorMessage.

\* the number of bytes of frame the write can reach
FrameBytesCleared == 0 .. ROWS * COLUMNS

\* f with its first n bytes zeroed; frame[r][c] is byte COLUMNS * r + c
ClearPrefix(f, n) ==
    [r \in Rows |->
        IF COLUMNS * r >= n THEN f[r]
        ELSE [c \in Cols |-> IF COLUMNS * r + c < n THEN 0 ELSE f[r][c]]]

\* the prefix lengths that leave different frames: zeroing n bytes of f
\* differs from zeroing n - 1 only when byte n - 1 is lit, so these lengths
\* give every frame a length in FrameBytesCleared gives
ErrorToStringOutcomes(f) ==
    {0} \cup { n \in FrameBytesCleared \ {0} :
                   f[(n - 1) \div COLUMNS][(n - 1) % COLUMNS] # 0 }

----------------------------------------------------------------------------
(* The program *)

Init ==
    /\ pc = "setup"
    /\ frame = ZeroFrame
    /\ display = ZeroFrame
    /\ minVal = 0
    /\ maxVal = 100
    /\ temperature = 0
    /\ error = 0
    /\ errorMessageSize = 0
    /\ displayValue = 0
    /\ baseline = NoReading
    /\ inserted = << >>
    /\ measured = FALSE
    /\ damaged = 0
    /\ ops = << >>

\* setup(): the probe succeeds and setup goes on to the calibration loop
SetupProbeOk ==
    /\ pc = "setup"
    /\ pc' = "calibrate"
    /\ error' = 0
    /\ errorMessageSize' = 0
    /\ ops' = <<"probe">>
    /\ UNCHANGED <<damaged, frame, display, minVal, maxVal, temperature,
                   displayValue, baseline, inserted, measured>>

\* setup(): the probe fails, the error is formatted and ledPanic() is entered
SetupProbeFail ==
    /\ pc = "setup"
    /\ pc' = "panic_on"
    /\ error' = 1
    /\ errorMessageSize' = 128
    /\ ops' = <<"probe", "errorToString">>
    /\ UNCHANGED <<damaged, frame, display, minVal, maxVal, temperature,
                   displayValue, baseline, inserted, measured>>

\* ledPanic(): render onFrame, delay
LedPanicOn ==
    /\ pc = "panic_on"
    /\ pc' = "panic_off"
    /\ display' = OnFrame
    /\ errorMessageSize' = 0
    /\ ops' = <<"render">>
    /\ UNCHANGED <<damaged, frame, minVal, maxVal, temperature, error,
                   displayValue, baseline, inserted, measured>>

\* variant: ledPanic() returns after one blink and setup() goes on
LedPanicOff_Returns ==
    /\ pc = "panic_off"
    /\ pc' = "calibrate"
    /\ display' = ZeroFrame
    /\ errorMessageSize' = 0
    /\ ops' = <<"render">>
    /\ UNCHANGED <<damaged, frame, minVal, maxVal, temperature, error,
                   displayValue, baseline, inserted, measured>>

\* ledPanic(): render offFrame, delay, and around the while (true)
LedPanicOff ==
    /\ pc = "panic_off"
    /\ pc' = "panic_on"
    /\ display' = ZeroFrame
    /\ errorMessageSize' = 0
    /\ ops' = <<"render">>
    /\ UNCHANGED <<damaged, frame, minVal, maxVal, temperature, error,
                   displayValue, baseline, inserted, measured>>

\* what the failed step has done, in order; a write of minVal that changes it
\* is recorded as a write of the window
FailOps(mn) ==
    IF mn # minVal
    THEN <<"measure", "errorToString", "calibrate">>
    ELSE <<"measure", "errorToString">>

\* Sht4xMeasureHighPrecision() returning false: the driver has stored a
\* non-zero error (1 stands for any code) and errorToString has been called
\* with size 256
MeasureFail ==
    /\ errorMessageSize' = 256
    /\ measured' = TRUE
    /\ \E n \in ErrorToStringOutcomes(frame) : frame' = ClearPrefix(frame, n)
    /\ minVal' \in {minVal, 0}
    /\ temperature' \in {temperature, 0}
    /\ error' \in {1, 0}
    /\ ops' = FailOps(minVal')

\* Sht4xMeasureHighPrecision() returning true with reading r
MeasureOk(r) ==
    /\ error' = 0
    /\ temperature' = r
    /\ measured' = TRUE
    /\ errorMessageSize' = 0

\* variant: the calibration loop does not `continue` after a failed
\* measurement and computes the window from the stale temperature
CalibrateFail_Proceeds ==
    /\ pc = "calibrate"
    /\ errorMessageSize' = 256
    /\ measured' = TRUE
    /\ error' = 1
    /\ \E mn \in CalibrateMin(temperature) :
          /\ minVal' = mn
          /\ maxVal' = CalibrateMax(mn)
    /\ baseline' = temperature
    /\ pc' = "loop"
    /\ ops' = <<"measure", "errorToString", "calibrate">>
    /\ UNCHANGED <<damaged, temperature, frame, display, displayValue, inserted>>

\* setup(): a failed measurement in the calibration loop; delay and retry
CalibrateFail ==
    /\ pc = "calibrate"
    /\ MeasureFail
    /\ pc' = "calibrate"
    /\ UNCHANGED <<damaged, display, maxVal, displayValue, baseline, inserted>>

\* setup(): a successful measurement; the window is computed and setup returns
CalibrateOk(r) ==
    /\ pc = "calibrate"
    /\ MeasureOk(r)
    /\ \E mn \in CalibrateMin(r) :
          /\ minVal' = mn
          /\ maxVal' = CalibrateMax(mn)
    /\ baseline' = r
    /\ pc' = "loop"
    /\ ops' = <<"measure", "calibrate">>
    /\ UNCHANGED <<damaged, frame, display, displayValue, inserted>>

\* loop(): the measurement fails and loop() returns; a read that overwrites
\* frame or minVal is counted against MaxLoops
LoopFail ==
    /\ pc = "loop"
    /\ MeasureFail
    /\ IF frame' # frame \/ minVal' # minVal
       THEN /\ Len(inserted) + damaged < MaxLoops
            /\ damaged' = damaged + 1
       ELSE damaged' = damaged
    /\ pc' = "loop"
    /\ UNCHANGED <<display, maxVal, displayValue, baseline, inserted>>

\* variant: loop() renders before it inserts the new value
LoopOk_RenderFirst(r) ==
    /\ pc = "loop"
    /\ Len(inserted) + damaged < MaxLoops
    /\ MeasureOk(r)
    /\ \E dv \in Quantize(r, minVal, maxVal) :
          /\ displayValue' = dv
          /\ display' = frame
          /\ frame' = insert_right(frame, dv, TRUE)
          /\ inserted' = Append(inserted, <<dv, TRUE>>)
    /\ pc' = "loop"
    /\ ops' = <<"measure", "render", "shift", "bar">>
    /\ UNCHANGED <<damaged, minVal, maxVal, baseline>>

\* variant: loop() inserts in outline mode
LoopOk_Outline(r) ==
    /\ pc = "loop"
    /\ Len(inserted) + damaged < MaxLoops
    /\ MeasureOk(r)
    /\ \E dv \in Quantize(r, minVal, maxVal) :
          /\ displayValue' = dv
          /\ frame' = insert_right(frame, dv, FALSE)
          /\ display' = frame'
          /\ inserted' = Append(inserted, <<dv, FALSE>>)
    /\ pc' = "loop"
    /\ ops' = <<"measure", "shift", "bar", "render">>
    /\ UNCHANGED <<damaged, minVal, maxVal, baseline>>

\* loop(): the measurement succeeds; quantize, insert, render
LoopOk(r) ==
    /\ pc = "loop"
    /\ Len(inserted) + damaged < MaxLoops
    /\ MeasureOk(r)
    /\ \E dv \in Quantize(r, minVal, maxVal) :
          /\ displayValue' = dv
          /\ frame' = insert_right(frame, dv, TRUE)
          /\ display' = frame'
          /\ inserted' = Append(inserted, <<dv, TRUE>>)
    /\ pc' = "loop"
    /\ ops' = <<"measure", "shift", "bar", "render">>
    /\ UNCHANGED <<damaged, minVal, maxVal, baseline>>

Next ==
    \/ SetupProbeOk
    \/ SetupProbeFail
    \/ LedPanicOn
    \/ LedPanicOff
    \/ CalibrateFail
    \/ \E r \in Readings : CalibrateOk(r)
    \/ LoopFail
    \/ \E r \in Readings : LoopOk(r)

Spec == Init /\ [][Next]_vars

\* ledPanic(): one pass of its while (true)
ledPanic == LedPanicOn \/ LedPanicOff

\* the processor never stops executing ledPanic() once it has entered it.
\* Nothing else is forced: setup() may wait for the serial console for ever
\* (while (!Serial) has no timeout), and the sensor may fail on every read
\* of the calibration loop or of loop().
FairSpec == Spec /\ WF_vars(ledPanic)

----------------------------------------------------------------------------
(* Drivers of insert_right: the function called on its own, from the       *)
(* all-unlit frame, with arguments the sketch's loop() may not produce     *)

InitDriver ==
    /\ pc = "driver"
    /\ frame = ZeroFrame
    /\ display = ZeroFrame
    /\ minVal = 0
    /\ maxVal = 100
    /\ temperature = 0
    /\ error = 0
    /\ errorMessageSize = 0
    /\ displayValue = 0
    /\ baseline = NoReading
    /\ inserted = << >>
    /\ measured = FALSE
    /\ damaged = 0
    /\ ops = << >>

\* one call insert_right(frame, value, fill)
InsertRightCall(value, fill) ==
    /\ pc = "driver"
    /\ frame' = insert_right(frame, value, fill)
    /\ inserted' = Append(inserted, <<value, fill>>)
    /\ ops' = <<"shift", "bar">>
    /\ UNCHANGED <<damaged, pc, display, minVal, maxVal, temperature, error,
                   errorMessageSize, displayValue, baseline, measured>>

\* the arguments of the scroll driver: a filled bar of 3, an outline mark of 6
ScrollArgs == { <<3, TRUE>>, <<6, FALSE>> }

\* up to MaxInserts calls, more than the frame has columns
NextScroll ==
    \E a \in ScrollArgs :
        /\ Len(inserted) < MaxInserts
        /\ InsertRightCall(a[1], a[2])

SpecScroll == InitDriver /\ [][NextScroll]_vars

\* two calls, each with any uint8_t value and either fill mode
NextBar ==
    \E value \in Uint8, fill \in BOOLEAN :
        /\ Len(inserted) < 2
        /\ InsertRightCall(value, fill)

SpecBar == InitDriver /\ [][NextBar]_vars

----------------------------------------------------------------------------
(* Vocabulary of the properties *)

\* the positions, counted from the bottom, that are lit in column c of f
LitCells(f, c) == { p \in Rows : f[ROWS - 1 - p][c] = 1 }

\* the bar of a value as the specification describes it: the lit positions
\* counted from the bottom
BarOf(value, fill) ==
    IF fill THEN { p \in Rows : p < value }
            ELSE { p \in Rows : p = value - 1 }

LastInserted == inserted[Len(inserted)]

----------------------------------------------------------------------------
(* C1: after N calls of insert_right from the all-unlit frame, column c    *)
(* holds the bar of v_{N-COLUMNS+1+c} when c >= COLUMNS-N and is unlit      *)
(* otherwise; so the frame is determined by the last COLUMNS insertions.   *)
ScrollFifo ==
    LET N == Len(inserted)
    IN  \A c \in Cols :
            IF c >= COLUMNS - N
            THEN LET v == inserted[N - COLUMNS + 1 + c]
                 IN  LitCells(frame, c) = BarOf(v[1], v[2])
            ELSE LitCells(frame, c) = {}

\* thirteen insertions: the first one has left the frame
ScrollFifoWitness ==
    /\ Len(inserted) = COLUMNS + 1
    /\ inserted[1] = <<3, TRUE>>
    /\ inserted[2] = <<6, FALSE>>
    /\ LitCells(frame, 0) = {5}
    /\ LitCells(frame, COLUMNS - 1) = BarOf(LastInserted[1], LastInserted[2])

(* C6: in filled mode the newest column has position p from the bottom     *)
(* lit iff p < value, stored at row index ROWS-1-p.                         *)
FilledBar ==
    (Len(inserted) > 0 /\ LastInserted[2] = TRUE) =>
        \A p \in Rows :
            (frame[ROWS - 1 - p][COLUMNS - 1] = 1) <=> (p < LastInserted[1])

FilledBarWitness ==
    /\ Len(inserted) > 0
    /\ LastInserted = <<3, TRUE>>
    /\ frame[ROWS - 1][COLUMNS - 1] = 1
    /\ frame[ROWS - 3][COLUMNS - 1] = 1
    /\ frame[ROWS - 4][COLUMNS - 1] = 0
    /\ frame[0][COLUMNS - 1] = 0

(* C7 as stated: in outline mode exactly the cell at position value-1 is   *)
(* lit for every non-zero value, and no cell for value 0.                   *)
OutlineOneCellForEveryNonZero ==
    (Len(inserted) > 0 /\ LastInserted[2] = FALSE) =>
        LET value == LastInserted[1]
            lit == LitCells(frame, COLUMNS - 1)
        IN  IF value = 0 THEN lit = {}
            ELSE /\ Cardinality(lit) = 1
                 /\ lit = {value - 1}

(* C7 amended: in outline mode exactly the cell at position value-1 is lit *)
(* for a value in 1..ROWS; no cell is lit for value 0 and for any value    *)
(* above ROWS.                                                              *)
OutlineBar ==
    (Len(inserted) > 0 /\ LastInserted[2] = FALSE) =>
        LET value == LastInserted[1]
            lit == LitCells(frame, COLUMNS - 1)
        IN  /\ (value \in 1 .. ROWS) => (Cardinality(lit) = 1 /\ lit = {value - 1})
            /\ (value = 0 \/ value > ROWS) => lit = {}

OutlineBarWitness ==
    /\ Len(inserted) = 2
    /\ inserted[1] = <<5, FALSE>>
    /\ inserted[2] = <<9, FALSE>>
    /\ LitCells(frame, COLUMNS - 2) = {4}
    /\ LitCells(frame, COLUMNS - 1) = {}

(* C8 as stated: in filled mode, for any values a > b, the bar of a holds   *)
(* every lit cell of the bar of b and at least one more.  The two bars are *)
(* those of two successive calls, a then b.                                 *)
FilledStrictSuperset ==
    (/\ Len(inserted) = 2
     /\ inserted[1][2] = TRUE /\ inserted[2][2] = TRUE
     /\ inserted[1][1] > inserted[2][1]) =>
        LET barA == LitCells(frame, COLUMNS - 2)
            barB == LitCells(frame, COLUMNS - 1)
        IN  barB \subseteq barA /\ barB # barA

(* C8 amended: in filled mode, for any values a > b, the bar of a holds    *)
(* every lit cell of the bar of b; when b < ROWS it holds at least one     *)
(* more, and every additional cell is above the bar of b; when b >= ROWS   *)
(* both bars are the full column.                                           *)
FilledMonotone ==
    (/\ Len(inserted) = 2
     /\ inserted[1][2] = TRUE /\ inserted[2][2] = TRUE
     /\ inserted[1][1] > inserted[2][1]) =>
        LET barA == LitCells(frame, COLUMNS - 2)
            barB == LitCells(frame, COLUMNS - 1)
            b == inserted[2][1]
        IN  /\ barB \subseteq barA
            /\ \A p \in barA \ barB : \A q \in barB : p > q
            /\ (b < ROWS) => barB # barA
            /\ (b >= ROWS) => (barA = Rows /\ barB = Rows)

FilledMonotoneWitness ==
    /\ Len(inserted) = 2
    /\ inserted[1] = <<6, TRUE>>
    /\ inserted[2] = <<2, TRUE>>
    /\ LitCells(frame, COLUMNS - 2) = 0 .. 5
    /\ LitCells(frame, COLUMNS - 1) = 0 .. 1

----------------------------------------------------------------------------
(* Properties of the sketch *)

\* a loop() iteration with a successful reading has just finished
AfterLoopOk == pc = "loop" /\ ops = <<"measure", "shift", "bar", "render">>

\* the step is a measurement that fails (the error is formatted)
ReadFails == errorMessageSize' = 256

\* the step is a measurement that succeeds
ReadSucceeds == errorMessageSize' = 0 /\ Len(ops') > 0 /\ ops'[1] = "measure"

\* the last step was a failed measurement
AfterFailedRead == errorMessageSize = 256

InPanic == pc \in {"panic_on", "panic_off"}

\* floor of a / b for b > 0
FloorDiv(a, b) == a \div b

(* C2 as stated: for every successful loop() reading the bar height        *)
(* displayValue is within 0..ROWS; a reading below minVal gives 0 and a    *)
(* reading above maxVal gives ROWS.                                         *)
DisplayValueClamped ==
    AfterLoopOk =>
        /\ displayValue \in 0 .. ROWS
        /\ (temperature < TempScale * minVal) => displayValue = 0
        /\ (temperature > TempScale * maxVal) => displayValue = ROWS

(* C3 as stated: once calibration has completed, maxVal > minVal and       *)
(* maxVal = minVal + TEMP_RANGE in every later state.                       *)
WindowOrdered ==
    (pc = "loop") => (maxVal > minVal /\ maxVal = minVal + TEMP_RANGE)

(* C4 as stated: for any calibration reading r the stored lower bound is   *)
(* floor(BASELINE_SCALE_FACTOR * r).                                        *)
MinValIsFloor ==
    (pc = "loop") =>
        minVal = FloorDiv(BASELINE_SCALE_NUM * baseline, BASELINE_SCALE_DEN * TempScale)

(* C5: for a reading inside the window, displayValue is                     *)
(* floor((reading - minVal) / (maxVal - minVal) * ROWS) and the newest     *)
(* column shows a bar of that height; reading = minVal gives 0, reading =  *)
(* maxVal gives ROWS; calibration at 20.0 gives the window 19..24, where   *)
(* 19.0, 21.5 and 24.0 give 0, 4 and 8.                                     *)
QuantizeInWindow ==
    /\ (pc = "loop" /\ ops = <<"measure", "calibrate">> /\ baseline = 20 * TempScale) =>
          (minVal = 19 /\ maxVal = 24)
    /\ (/\ AfterLoopOk
        /\ TempScale * minVal <= temperature
        /\ temperature <= TempScale * maxVal) =>
          /\ displayValue = FloorDiv((temperature - TempScale * minVal) * ROWS,
                                     TempScale * (maxVal - minVal))
          /\ LitCells(frame, COLUMNS - 1) = 0 .. (displayValue - 1)
          /\ (temperature = TempScale * minVal) => displayValue = 0
          /\ (temperature = TempScale * maxVal) => displayValue = ROWS
          /\ (minVal = 19 /\ maxVal = 24) =>
                /\ (temperature = 19 * TempScale) => displayValue = 0
                /\ (2 * temperature = 43 * TempScale) => displayValue = 4
                /\ (temperature = 24 * TempScale) => displayValue = 8

\* calibration at 20.0, then 21.5 and 24.0
QuantizeInWindowWitness ==
    /\ AfterLoopOk
    /\ baseline = 20 * TempScale
    /\ minVal = 19 /\ maxVal = 24
    /\ temperature = 24 * TempScale
    /\ inserted = << <<4, TRUE>>, <<8, TRUE>> >>
    /\ LitCells(frame, COLUMNS - 1) = Rows
    /\ LitCells(frame, COLUMNS - 2) = 0 .. 3
    /\ LitCells(frame, COLUMNS - 3) = {}

(* C9 as stated: a loop() iteration whose read fails changes no cell of frame *)
(* and neither minVal nor maxVal, inserts nothing, renders nothing, and    *)
(* leaves the loop running, so that any later reading is quantized and     *)
(* inserted as it would have been without the failure.                      *)
FailedReadIsNoOp ==
    /\ [][ (pc = "loop" /\ ReadFails) =>
          /\ frame' = frame
          /\ minVal' = minVal /\ maxVal' = maxVal
          /\ inserted' = inserted
          /\ display' = display
          /\ \A i \in 1 .. Len(ops') : ops'[i] \notin {"shift", "bar", "render"}
          /\ pc' = "loop"
      ]_vars
    /\ [][ (pc = "loop" /\ AfterFailedRead /\ ReadSucceeds) =>
          /\ displayValue' \in Quantize(temperature', minVal, maxVal)
          /\ frame' = insert_right(frame, displayValue', TRUE)
          /\ display' = frame'
          /\ inserted' = Append(inserted, <<displayValue', TRUE>>)
      ]_vars

(* C10: when the probe in setup() fails the sketch enters ledPanic() and   *)
(* stays there: no measurement is taken, minVal and maxVal keep their      *)
(* initial values, loop() never runs, frame is never modified, and the     *)
(* display alternates between the all-lit and the all-unlit frame forever. *)
PanicForever ==
    /\ [][ (pc = "setup" /\ error' # 0) => InPanic' ]_vars
    /\ [](InPanic =>
            /\ ~measured
            /\ baseline = NoReading
            /\ minVal = 0 /\ maxVal = 100
            /\ frame = ZeroFrame
            /\ inserted = << >>)
    /\ [][ InPanic =>
            /\ InPanic'
            /\ display' \in {OnFrame, ZeroFrame}
            /\ display' # display ]_vars
    /\ [](InPanic => <>(display = OnFrame))
    /\ [](InPanic => <>(display = ZeroFrame /\ pc = "panic_on" /\ ops = <<"render">>))

\* in ledPanic(), after the all-lit frame has been rendered
PanicForeverWitness ==
    /\ pc = "panic_off"
    /\ display = OnFrame
    /\ frame = ZeroFrame
    /\ error # 0

\* the window has not been written yet
BeforeCalibration == pc \in {"setup", "calibrate"}

\* the step writes minVal and maxVal
WritesWindow == \E i \in 1 .. Len(ops') : ops'[i] = "calibrate"

(* C11 as stated: minVal and maxVal are written exactly once, from the first *)
(* successful measurement in setup(), before any insertion or render of    *)
(* the scroll frame; no loop() iteration, successful or failed, changes    *)
(* them afterwards.                                                         *)
WindowWrittenOnce ==
    /\ [](BeforeCalibration =>
            /\ minVal = 0 /\ maxVal = 100
            /\ baseline = NoReading
            /\ inserted = << >>
            /\ frame = ZeroFrame /\ display = ZeroFrame)
    /\ [][ BeforeCalibration => (ReadSucceeds \/ ~WritesWindow) ]_vars
    /\ [][ (pc = "calibrate" /\ ReadSucceeds) =>
            /\ WritesWindow
            /\ minVal' \in CalibrateMin(temperature')
            /\ maxVal' = (minVal' + TEMP_RANGE) % UINT8_RANGE
            /\ pc' = "loop" ]_vars
    /\ [][ ~BeforeCalibration =>
            /\ ~WritesWindow
            /\ minVal' = minVal /\ maxVal' = maxVal
            /\ ~BeforeCalibration' ]_vars

(* C12: after a successful probe the calibration loop measures again after *)
(* every failed read, without an attempt limit, and never proceeds on a    *)
(* failed read; if a read eventually succeeds, calibration completes and   *)
(* the steady-state loop starts.                                            *)
CalibrationRetries ==
    /\ [][ (pc = "setup" /\ error' = 0) => pc' = "calibrate" ]_vars
    /\ [][ (pc = "calibrate" /\ ReadFails) =>
            /\ pc' = "calibrate"
            /\ baseline' = NoReading
            /\ minVal' = minVal /\ maxVal' = maxVal
            /\ ~WritesWindow ]_vars
    /\ [](pc = "calibrate" => (ENABLED CalibrateFail /\ ENABLED (\E r \in Readings : CalibrateOk(r))))
    /\ [][ (pc = "calibrate" /\ ReadSucceeds) =>
            /\ pc' = "loop"
            /\ baseline' = temperature'
            /\ minVal' \in CalibrateMin(baseline') ]_vars
    /\ (<>(measured /\ ~AfterFailedRead)) => <>(pc = "loop")

\* a failed calibration read: setup() is still in the calibration loop with
\* the window unwritten
CalibrationRetriesWitness ==
    /\ pc = "calibrate"
    /\ measured
    /\ AfterFailedRead
    /\ ops = <<"measure", "errorToString">>
    /\ minVal = 0 /\ maxVal = 100

(* C13 as stated: if the first steady-state reading equals the calibration *)
(* reading, the bar inserted by loop() lights the lowest row and only the  *)
(* lowest row, for any calibration reading.                                 *)
FirstBarIsLowestRow ==
    (AfterLoopOk /\ Len(inserted) = 1 /\ temperature = baseline) =>
        /\ displayValue = 1
        /\ LitCells(frame, COLUMNS - 1) = {0}

(* C14 as stated: for any calibration reading r the calibrated minVal is   *)
(* strictly below r.                                                        *)
MinValBelowReading ==
    (pc = "loop") => (TempScale * minVal < baseline)

(* C14 amended: for any calibration reading r > 0 the calibrated minVal is *)
(* strictly below r.                                                        *)
MinValBelowPositiveReading ==
    (pc = "loop" /\ baseline > 0) => (TempScale * minVal < baseline)

\* calibration at 20.0 has just stored minVal 19
MinValBelowPositiveReadingWitness ==
    /\ pc = "loop"
    /\ ops = <<"measure", "calibrate">>
    /\ baseline = 20 * TempScale
    /\ minVal = 19
    /\ TempScale * minVal < baseline

\* the frame with its columns moved one to the left and column COLUMNS-1
\* replaced by the lit positions bar
ScrolledWith(f, bar) ==
    [r \in Rows |-> [c \in Cols |->
        IF c = COLUMNS - 1
        THEN (IF (ROWS - 1 - r) \in bar THEN 1 ELSE 0)
        ELSE f[r][c + 1]]]

(* C15: every loop() iteration whose read succeeds performs exactly one    *)
(* left shift of all columns, then one write of the new bar into the       *)
(* rightmost column, then one render call, unconditionally and in this     *)
(* order; the renderer only ever gets a frame on which the shift and the   *)
(* bar write are both complete.                                             *)
ScrollThenRender ==
    /\ [][ (pc = "loop" /\ ReadSucceeds) =>
            /\ ops' = <<"measure", "shift", "bar", "render">>
            /\ Len(inserted') = Len(inserted) + 1
            /\ frame' = ScrolledWith(frame, BarOf(displayValue', TRUE))
            /\ display' = frame' ]_vars
    /\ [][ (display' # display /\ ~InPanic') =>
            /\ pc = "loop" /\ ReadSucceeds
            /\ display' = ScrolledWith(frame, BarOf(displayValue', TRUE)) ]_vars

\* two insertions rendered: the bar of 4 has moved left of the bar of 8
ScrollThenRenderWitness ==
    /\ AfterLoopOk
    /\ ops = <<"measure", "shift", "bar", "render">>
    /\ Len(inserted) = 2
    /\ LitCells(display, COLUMNS - 2) = 0 .. 3
    /\ LitCells(display, COLUMNS - 1) = Rows
    /\ display = frame

(* C16: in every reachable state of the sketch every column of frame is a  *)
(* solid bar anchored at the bottom: a lit position has every position     *)
(* below it lit, for any readings, inside the window or not.               *)
SolidBars ==
    \A c \in Cols : \A p \in LitCells(frame, c) :
        \A q \in Rows : (q < p) => q \in LitCells(frame, c)

\* a reading above the window (height 10) next to one inside it
SolidBarsWitness ==
    /\ AfterLoopOk
    /\ Len(inserted) = 2
    /\ inserted[1] = <<4, TRUE>>
    /\ inserted[2] = <<10, TRUE>>
    /\ LitCells(frame, COLUMNS - 2) = 0 .. 3
    /\ LitCells(frame, COLUMNS - 1) = Rows

(* C17: every cell of frame holds 0 or 1 in every reachable state, for any *)
(* insert_right calls with any 8-bit value and either fill mode.           *)
BinaryCells ==
    \A r \in Rows : \A c \in Cols : frame[r][c] \in {0, 1}

\* the largest value, filled, then an outline mark
BinaryCellsWitness ==
    /\ Len(inserted) = 2
    /\ inserted[1] = <<255, TRUE>>
    /\ inserted[2] = <<2, FALSE>>
    /\ frame[0][COLUMNS - 2] = 1
    /\ frame[ROWS - 2][COLUMNS - 1] = 1
    /\ frame[ROWS - 1][COLUMNS - 1] = 0

(* C18 as stated: on every path that formats a sensor error the length     *)
(* passed to errorToString does not exceed the capacity of errorMessage.   *)
ErrorMessageSizeWithinCapacity ==
    errorMessageSize <= ERROR_MESSAGE_CAPACITY

====
